---- MODULE Spec2Model ----
(***************************************************************************)
(* Model of src/scraper.py: sitemap resolution, product-link collection,   *)
(* per-page JSON-LD extraction and the run loop of main().                 *)
(*                                                                         *)
(* Text is modelled as a sequence of tokens (a token stands for a run of   *)
(* characters), so that Python's substring test `m in s` is the contiguous *)
(* sub-sequence test Contains(m, s).                                       *)
(***************************************************************************)
EXTENDS Integers, Sequences, FiniteSets, TLC

VARIABLES
    \* --- main() ---------------------------------------------------------
    pc,                \* position of main(): see MainPcs
    env_value,         \* the MAX_PRODUCTS environment entry
    max_products,      \* scraper.py:135/138
    sitemap_urls,      \* scraper.py:143
    product_links,     \* scraper.py:148
    links_to_scrape,   \* scraper.py:153
    all_products_data, \* scraper.py:157
    i,                 \* number of loop iterations of scraper.py:162 completed
    playwright,        \* the async_playwright() scope: "none", "started", "stopped"
    browser,           \* "none", "open", "closed"
    page,              \* "none", "open", "closed"
    visited,           \* urls handed to page.goto, in order (history)
    loads,             \* how each of those navigations ended (history)
    csv_written,       \* output/products_scraped.csv has been written
    outcome,           \* how main() ended: "running", "returned", "raised", "exit1"
    \* --- get_product_sitemap_urls called on its own -----------------------
    r_input, r_output,
    \* --- get_all_product_links_from_sitemaps called on its own ------------
    c_input, c_output,
    \* --- scrape_product_page called on its own ----------------------------
    p_input, p_output

mainVars == <<pc, env_value, max_products, sitemap_urls, product_links,
              links_to_scrape, all_products_data, i, playwright, browser,
              page, visited, loads, csv_written, outcome>>
vars == <<pc, env_value, max_products, sitemap_urls, product_links,
          links_to_scrape, all_products_data, i, playwright, browser,
          page, visited, loads, csv_written, outcome,
          r_input, r_output, c_input, c_output, p_input, p_output>>

(***************************************************************************)
(* Bounds of the model.                                                    *)
(***************************************************************************)
MaxLocs == 3       \* <loc> elements in a sitemap index document
MaxSitemaps == 2   \* product sitemaps handed to the link collector
MaxUrlTags == 2    \* <url> elements in a child sitemap document
MaxBlocks == 2     \* JSON-LD script blocks on a page
MaxItems == 2      \* objects in a JSON-LD block that is a list
MaxDigit == 2      \* largest digit of a one-digit MAX_PRODUCTS value

(***************************************************************************)
(* Sequences and text.                                                     *)
(***************************************************************************)
SeqsUpTo(S, n) == UNION {[1..k -> S] : k \in 0..n}

Min(a, b) == IF a <= b THEN a ELSE b
Max(a, b) == IF a >= b THEN a ELSE b

\* Python `sub in s` on strings
Contains(sub, s) ==
    \E k \in 0..(Len(s) - Len(sub)) : SubSeq(s, k + 1, k + Len(sub)) = sub

\* Python s[:stop] (scraper.py:153): a negative stop counts from the end
SliceTo(s, stop) ==
    LET n == Len(s)
        k == IF stop < 0 THEN Max(n + stop, 0) ELSE Min(stop, n)
    IN  SubSeq(s, 1, k)

(***************************************************************************)
(* Exceptions: the classes that can be raised and Python's `except C`.     *)
(***************************************************************************)
NoExc == "none"

ExcParent ==
    [e \in {"ConnectionError", "HTTPError", "RequestException", "OSError",
            "ParserRejectedMarkup", "JSONDecodeError", "ValueError",
            "AttributeError", "TypeError", "IndexError",
            "PlaywrightTimeoutError", "PlaywrightError", "Exception"} |->
        CASE e = "ConnectionError" -> "RequestException"
          [] e = "HTTPError" -> "RequestException"
          [] e = "RequestException" -> "OSError"
          [] e = "OSError" -> "Exception"
          [] e = "ParserRejectedMarkup" -> "Exception"
          [] e = "JSONDecodeError" -> "ValueError"
          [] e = "ValueError" -> "Exception"
          [] e = "AttributeError" -> "Exception"
          [] e = "TypeError" -> "Exception"
          [] e = "IndexError" -> "Exception"
          [] e = "PlaywrightTimeoutError" -> "PlaywrightError"
          [] e = "PlaywrightError" -> "Exception"
          [] OTHER -> "BaseException"]

RECURSIVE IsSubclass(_, _)
IsSubclass(e, c) ==
    IF e = c THEN TRUE
    ELSE IF e \notin DOMAIN ExcParent THEN FALSE
    ELSE IsSubclass(ExcParent[e], c)

(***************************************************************************)
(* HTTP answers.  An answer is what requests.get + raise_for_status +      *)
(* BeautifulSoup(r.text, 'xml') make of one URL:                           *)
(*   "ok"          the body parsed; doc is the parsed document             *)
(*   "conn_error"  requests.get raised ConnectionError                     *)
(*   "http_error"  raise_for_status raised HTTPError                       *)
(*   "parse_error" BeautifulSoup raised (bs4 raises ParserRejectedMarkup   *)
(*                 when lxml refuses the markup)                           *)
(***************************************************************************)
AnswerKinds == {"ok", "conn_error", "http_error", "parse_error"}

Answer(kind, doc) == [kind |-> kind, doc |-> doc]

\* the exception raised inside the try block of scraper.py:20-27 / 37-45
FetchExc(answer) ==
    CASE answer.kind = "conn_error" -> "ConnectionError"
      [] answer.kind = "http_error" -> "HTTPError"
      [] answer.kind = "parse_error" -> "ParserRejectedMarkup"
      [] OTHER -> NoExc

\* `except requests.RequestException` (scraper.py:28 and :46)
CaughtAsRequestException(exc) == IsSubclass(exc, "RequestException")

(***************************************************************************)
(* get_product_sitemap_urls (scraper.py:17-30).  An index document is the  *)
(* sequence of the texts of its <loc> elements, in document order.         *)
(***************************************************************************)
SITEMAP_MARK == <<"sitemap_", "products">>

IndexLocTexts ==
    { <<"sitemap_", "products", "_1">>,
      <<"sitemap_", "products", "_2">>,
      <<"sitemap_", "pages">>,
      <<"products", "sitemap_">> }

\* variant: looks for the word "products" anywhere instead of the marker
IsProductSitemapLoose(loc) == \E k \in 1..Len(loc) : loc[k] = "products"

IsProductSitemap(loc) == Contains(SITEMAP_MARK, loc)

\* result of a call: exc is the exception that leaves the function (NoExc
\* when it returns), val the returned list
Returned(val) == [exc |-> NoExc, val |-> val]
Raised(exc) == [exc |-> exc, val |-> <<>>]

GetProductSitemapUrls(answer) ==
    LET exc == FetchExc(answer)
    IN  IF exc = NoExc
        THEN Returned(SelectSeq(answer.doc, IsProductSitemap))
        ELSE IF CaughtAsRequestException(exc)
             THEN Returned(<<>>)
             ELSE Raised(exc)

(***************************************************************************)
(* get_all_product_links_from_sitemaps (scraper.py:32-50).  A child        *)
(* sitemap document is the sequence of its <url> elements; a <url> element *)
(* has a first <loc> child or none.                                        *)
(***************************************************************************)
PRODUCTS_MARK == <<"/", "products", "/">>

LinkA == <<"/", "products", "/", "a">>
LinkB == <<"/", "products", "/", "b">>
PageLink == <<"/", "pages", "/", "a">>

UrlTag(has_loc, loc) == [has_loc |-> has_loc, loc |-> loc]
UrlTags == {UrlTag(FALSE, <<>>), UrlTag(TRUE, LinkA), UrlTag(TRUE, LinkB),
            UrlTag(TRUE, PageLink)}

\* scraper.py:44: `if loc_tag and '/products/' in loc_tag.text`
IsProductTag(tag) == tag.has_loc /\ Contains(PRODUCTS_MARK, tag.loc)

RECURSIVE TagLinks(_)
\* scraper.py:42-45: the links one document appends, in document order
TagLinks(doc) ==
    IF doc = <<>> THEN <<>>
    ELSE (IF IsProductTag(Head(doc)) THEN <<Head(doc).loc>> ELSE <<>>)
         \o TagLinks(Tail(doc))

RECURSIVE CollectLoopStopsOnError(_, _)
\* variant: a failing sitemap ends the loop (the try around the whole loop)
CollectLoopStopsOnError(answers, links) ==
    IF answers = <<>> THEN Returned(links)
    ELSE LET exc == FetchExc(Head(answers))
         IN  IF exc = NoExc
             THEN CollectLoopStopsOnError(Tail(answers),
                                          links \o TagLinks(Head(answers).doc))
             ELSE IF CaughtAsRequestException(exc)
                  THEN Returned(links)
                  ELSE Raised(exc)

RECURSIVE CollectLoop(_, _)
\* the for loop of scraper.py:36-47 over the answers still to be fetched,
\* with product_links as accumulated so far
CollectLoop(answers, links) ==
    IF answers = <<>> THEN Returned(links)
    ELSE LET exc == FetchExc(Head(answers))
         IN  IF exc = NoExc
             THEN CollectLoop(Tail(answers), links \o TagLinks(Head(answers).doc))
             ELSE IF CaughtAsRequestException(exc)
                  THEN CollectLoop(Tail(answers), links)
                  ELSE Raised(exc)

\* answers[k] is what the fetch of urls[k] gives
GetAllProductLinksFromSitemaps(urls, answers) ==
    CollectLoop(SubSeq(answers, 1, Len(urls)), <<>>)

(***************************************************************************)
(* JSON values of a JSON-LD block.  A field value is                       *)
(*   [t |-> "absent"]  the key is not in the object                        *)
(*   [t |-> "null"]    JSON null (Python None)                             *)
(*   [t |-> "str"]     a string, s its text                                *)
(*   [t |-> "num"]     a number, s its digits                              *)
(***************************************************************************)
Absent == [t |-> "absent", s |-> <<>>]
Null == [t |-> "null", s |-> <<>>]
Str(s) == [t |-> "str", s |-> s]
Num(s) == [t |-> "num", s |-> s]

\* the default 'N/A' of scraper.py:86-92, 100-104
NA == Str(<<"N/A">>)

\* Python dict.get(key, default) with v the entry of the key
Get(v, default) == IF v.t = "absent" THEN default ELSE v

\* Python dict.get(key): None when the key is absent
GetOrNone(v) == IF v.t = "absent" THEN Null ELSE v

\* An element of `offers`: a JSON value that may be an Offer object
\* (t = "dict") with the three keys the code reads.
OfferElem(t, s, price, cur, avail) ==
    [t |-> t, s |-> s, price |-> price, priceCurrency |-> cur,
     availability |-> avail]
OfferDict(price, cur, avail) == OfferElem("dict", <<>>, price, cur, avail)
OfferScalar(v) == OfferElem(v.t, v.s, Absent, Absent, Absent)

\* The value of the key 'offers': absent, a scalar, one object (elems holds
\* it) or a list (elems holds its elements).
OffersValue(t, s, elems) == [t |-> t, s |-> s, elems |-> elems]

\* An object of a JSON-LD block: t = "dict" for a JSON object, else a scalar
Item(t, type, name, sku, description, offers) ==
    [t |-> t, type |-> type, name |-> name, sku |-> sku,
     description |-> description, offers |-> offers]

\* A script block: "bad" (json.loads raises), "single" (one value) or
\* "many" (a JSON list of values)
Block(t, items) == [t |-> t, items |-> items]

\* What page.goto and the rendered page give for one url
PageAnswer(nav, blocks) == [nav |-> nav, blocks |-> blocks]

(***************************************************************************)
(* scrape_product_page (scraper.py:54-127)                                 *)
(***************************************************************************)
WHITESPACE == {"SP", "NL", "TAB"}

\* str.replace("\n", " ") (scraper.py:88)
ReplaceNewlines(s) == [k \in 1..Len(s) |-> IF s[k] = "NL" THEN "SP" ELSE s[k]]

RECURSIVE LStrip(_)
LStrip(s) ==
    IF s # <<>> /\ Head(s) \in WHITESPACE THEN LStrip(Tail(s)) ELSE s

RECURSIVE RStrip(_)
RStrip(s) ==
    IF s # <<>> /\ s[Len(s)] \in WHITESPACE
    THEN RStrip(SubSeq(s, 1, Len(s) - 1)) ELSE s

\* str.strip() (scraper.py:88)
Strip(s) == RStrip(LStrip(s))

\* Python truth value of an element of offers (scraper.py:99)
Truthy(e) ==
    CASE e.t = "dict" -> \/ e.price.t # "absent"
                         \/ e.priceCurrency.t # "absent"
                         \/ e.availability.t # "absent"
      [] e.t = "str" -> e.s # <<>>
      [] e.t = "num" -> e.s # <<"0">>
      [] OTHER -> FALSE

IN_STOCK == <<"In", "Stock">>
OUT_OF_STOCK == <<"OutOf", "Stock">>

\* variant: the two tests of scraper.py:105-108 in the other order
MapAvailabilityOutFirst(raw) ==
    IF Contains(OUT_OF_STOCK, raw.s) THEN Str(<<"Out of Stock">>)
    ELSE IF Contains(IN_STOCK, raw.s) THEN Str(<<"In Stock">>)
    ELSE raw

\* scraper.py:105-110, for a raw value that is a string
MapAvailability(raw) ==
    IF Contains(IN_STOCK, raw.s) THEN Str(<<"In Stock">>)
    ELSE IF Contains(OUT_OF_STOCK, raw.s) THEN Str(<<"Out of Stock">>)
    ELSE raw

\* scraper.py:95-97: the value `offers` holds after the list check;
\* exc is the IndexError of offers[0] on an empty list
FirstOffer(offers) ==
    IF offers.t = "list"
    THEN IF offers.elems = <<>> THEN Raised("IndexError")
         ELSE Returned(<<offers.elems[1]>>)
    ELSE IF offers.t = "dict" THEN Returned(<<offers.elems[1]>>)
    ELSE Returned(<<OfferScalar(GetOrNone(offers))>>)

ProductRecord(name, url, price, cur, sku, avail, description) ==
    [name |-> name, url |-> url, price |-> price, price_currency |-> cur,
     sku |-> sku, availability |-> avail, description |-> description]

\* scraper.py:86-120 for an object whose @type is "Product"
ExtractProduct(item, url) ==
    LET name == Get(item.name, NA)
        sku == Get(item.sku, NA)
        d == Get(item.description, NA)
        first == FirstOffer(item.offers)
    IN  IF d.t # "str" THEN Raised("AttributeError")
        ELSE IF first.exc # NoExc THEN first
        ELSE LET description == Str(Strip(ReplaceNewlines(d.s)))
                 offers == first.val[1]
             IN  IF ~Truthy(offers)
                 THEN Returned(<<ProductRecord(name, url, NA, NA, sku, NA,
                                               description)>>)
                 ELSE IF offers.t # "dict" THEN Raised("AttributeError")
                 ELSE LET raw == Get(offers.availability, NA)
                      IN  IF raw.t # "str" THEN Raised("TypeError")
                          ELSE Returned(<<ProductRecord(
                                   name, url,
                                   Get(offers.price, NA),
                                   Get(offers.priceCurrency, NA),
                                   sku, MapAvailability(raw), description)>>)

\* scraper.py:84: item.get('@type') == 'Product'
IsProduct(item) == item.type = Str(<<"Product">>)

RECURSIVE ScanItems(_, _)
\* scraper.py:83-120 over data_list; val = <<>> when no item returned
ScanItems(items, url) ==
    IF items = <<>> THEN Returned(<<>>)
    ELSE LET item == Head(items)
         IN  IF item.t # "dict" THEN Raised("AttributeError")
             ELSE IF IsProduct(item) THEN ExtractProduct(item, url)
             ELSE ScanItems(Tail(items), url)

RECURSIVE ScanBlocks(_, _)
\* scraper.py:75-123 over script_elements; val = <<>> is `return None`
ScanBlocks(blocks, url) ==
    IF blocks = <<>> THEN Returned(<<>>)
    ELSE LET b == Head(blocks)
         IN  IF b.t = "bad" THEN Raised("JSONDecodeError")
             ELSE LET r == ScanItems(b.items, url)
                  IN  IF r.exc # NoExc \/ r.val # <<>> THEN r
                      ELSE ScanBlocks(Tail(blocks), url)

\* variant: a handler for ValueError (json.JSONDecodeError) alone
CaughtAsValueError(exc) == IsSubclass(exc, "ValueError")

\* `except Exception` (scraper.py:62 and :125)
CaughtAsException(exc) == IsSubclass(exc, "Exception")

\* the exception page.goto raises (scraper.py:61)
GotoExc(answer) ==
    CASE answer.nav = "error" -> "PlaywrightError"
      [] answer.nav = "timeout" -> "PlaywrightTimeoutError"
      [] OTHER -> NoExc

\* val = <<>> is None, val = <<record>> is the returned dict
ScrapeProductPage(answer, url) ==
    LET g == GotoExc(answer)
    IN  IF g # NoExc
        THEN IF CaughtAsException(g) THEN Returned(<<>>) ELSE Raised(g)
        ELSE LET r == ScanBlocks(answer.blocks, url)
             IN  IF r.exc # NoExc /\ CaughtAsException(r.exc)
                 THEN Returned(<<>>)
                 ELSE r

(***************************************************************************)
(* Inputs.                                                                 *)
(***************************************************************************)
FailedAnswers == {Answer(k, <<>>) : k \in AnswerKinds \ {"ok"}}

IndexAnswers ==
    FailedAnswers \cup {Answer("ok", d) : d \in SeqsUpTo(IndexLocTexts, MaxLocs)}

SitemapAnswers ==
    FailedAnswers \cup {Answer("ok", d) : d \in SeqsUpTo(UrlTags, MaxUrlTags)}

ProductSitemapLoc == <<"sitemap_", "products", "_1">>

CollectInputs ==
    {[urls |-> [k \in 1..Len(a) |-> ProductSitemapLoc], answers |-> a] :
        a \in SeqsUpTo(SitemapAnswers, MaxSitemaps)}

NameValues == {Absent, Null, Str(<<"Tea">>)}
SkuValues == {Absent, Str(<<"SKU1">>)}
DescriptionValues ==
    {Absent, Null, Num(<<"7">>), Str(<<"a">>),
     Str(<<"NL", "a", "NL", "b", "SP">>)}
PriceValues == {Absent, Str(<<"1999">>), Num(<<"1999">>)}
CurrencyValues == {Absent, Str(<<"PKR">>)}
AvailabilityValues ==
    {Absent, Null, Num(<<"1">>),
     Str(<<"schema/", "In", "Stock">>),
     Str(<<"schema/", "OutOf", "Stock">>),
     Str(<<"OutOf", "Stock", "In", "Stock">>),
     Str(<<"In", "OutOf", "Stock">>),
     Str(<<"PreOrder">>)}

OfferDicts ==
    {OfferDict(p, c, a) :
        p \in PriceValues, c \in CurrencyValues, a \in AvailabilityValues}

SecondOffer == OfferDict(Str(<<"5">>), Str(<<"USD">>), Str(<<"PreOrder">>))

OffersValues ==
    {OffersValue(v.t, v.s, <<>>) :
        v \in {Absent, Null, Str(<<>>), Str(<<"x">>), Num(<<"0">>)}}
    \cup {OffersValue("dict", <<>>, <<d>>) : d \in OfferDicts}
    \cup {OffersValue("list", <<>>, l) :
            l \in {<<>>, <<OfferScalar(Null)>>, <<OfferScalar(Str(<<"x">>))>>}}
    \cup {OffersValue("list", <<>>, <<d>>) : d \in OfferDicts}
    \cup {OffersValue("list", <<>>, <<d, SecondOffer>>) : d \in OfferDicts}

ProductType == Str(<<"Product">>)

ProductItems ==
    {Item("dict", ProductType, n, k, d, o) :
        n \in NameValues, k \in SkuValues, d \in DescriptionValues,
        o \in OffersValues}

NoOffers == OffersValue("absent", <<>>, <<>>)
ScalarItem == Item("str", Absent, Absent, Absent, Absent, NoOffers)
OtherItem ==
    Item("dict", Str(<<"Organization">>), Str(<<"Shop">>), Absent, Absent,
         NoOffers)
NoTypeItem == Item("dict", Absent, Str(<<"Shop">>), Absent, Absent, NoOffers)
PlainProduct ==
    Item("dict", ProductType, Str(<<"Plain">>), Str(<<"SKU0">>),
         Str(<<"plain">>),
         OffersValue("dict", <<>>,
                     <<OfferDict(Str(<<"10">>), Str(<<"PKR">>),
                                 Str(<<"schema/", "In", "Stock">>))>>))

SmallItems == {ScalarItem, OtherItem, PlainProduct}

SmallBlocks ==
    {Block("bad", <<>>)}
    \cup {Block("single", <<x>>) : x \in SmallItems}
    \cup {Block("many", l) : l \in SeqsUpTo(SmallItems, MaxItems)}

\* blocks that hold one of ProductItems, alone or after a non-Product object
ProductBlocks ==
    {Block("single", <<x>>) : x \in ProductItems}
    \cup {Block("many", <<NoTypeItem, x>>) : x \in ProductItems}

PageBlocks ==
    SeqsUpTo(SmallBlocks, MaxBlocks)
    \cup {<<b>> : b \in ProductBlocks}
    \cup {<<Block("single", <<OtherItem>>), b>> : b \in ProductBlocks}

PageAnswers ==
    {PageAnswer("error", <<>>), PageAnswer("timeout", <<>>)}
    \cup {PageAnswer("ok", bs) : bs \in PageBlocks}

PageInputs == [url : {LinkA, LinkB}, answer : PageAnswers]

(***************************************************************************)
(* The three functions called on their own, on every input of the sets     *)
(* above.                                                                  *)
(***************************************************************************)
NotCalled == [called |-> FALSE, exc |-> NoExc, val |-> <<>>]
Called(r) == [called |-> TRUE, exc |-> r.exc, val |-> r.val]

NoInput == <<>>

MainIdle ==
    /\ pc = "idle" /\ env_value = <<>> /\ max_products = 0
    /\ sitemap_urls = <<>> /\ product_links = <<>> /\ links_to_scrape = <<>>
    /\ all_products_data = <<>> /\ i = 0
    /\ playwright = "none" /\ browser = "none" /\ page = "none"
    /\ visited = <<>> /\ loads = <<>>
    /\ csv_written = FALSE /\ outcome = "running"

ResolveIdle == r_input = NoInput /\ r_output = NotCalled
CollectIdle == c_input = NoInput /\ c_output = NotCalled
PageIdle == p_input = NoInput /\ p_output = NotCalled

InitResolve ==
    /\ MainIdle /\ CollectIdle /\ PageIdle
    /\ r_input \in IndexAnswers
    /\ r_output = NotCalled

CallResolve ==
    /\ ~r_output.called
    /\ r_output' = Called(GetProductSitemapUrls(r_input))
    /\ UNCHANGED <<mainVars, r_input, c_input, c_output, p_input, p_output>>

SpecResolve == InitResolve /\ [][CallResolve]_vars

InitCollect ==
    /\ MainIdle /\ ResolveIdle /\ PageIdle
    /\ c_input \in CollectInputs
    /\ c_output = NotCalled

CallCollect ==
    /\ ~c_output.called
    /\ c_output' = Called(GetAllProductLinksFromSitemaps(c_input.urls,
                                                         c_input.answers))
    /\ UNCHANGED <<mainVars, r_input, r_output, c_input, p_input, p_output>>

SpecCollect == InitCollect /\ [][CallCollect]_vars

InitPage ==
    /\ MainIdle /\ ResolveIdle /\ CollectIdle
    /\ p_input \in PageInputs
    /\ p_output = NotCalled

CallScrape ==
    /\ ~p_output.called
    /\ p_output' = Called(ScrapeProductPage(p_input.answer, p_input.url))
    /\ UNCHANGED <<mainVars, r_input, r_output, c_input, c_output, p_input>>

SpecPage == InitPage /\ [][CallScrape]_vars

(***************************************************************************)
(* main() (scraper.py:130-191)                                             *)
(***************************************************************************)
MainPcs == {"idle", "start", "resolve", "collect", "enter", "launch",
            "new_page", "loop", "save", "done"}

DefaultMaxProducts == 20

DigitChars == <<"0", "1", "2", "3", "4", "5", "6", "7", "8", "9">>
DigitValue(c) == (CHOOSE d \in 1..10 : DigitChars[d] = c) - 1
IsDigit(c) == \E d \in 1..10 : DigitChars[d] = c

RECURSIVE DigitsValue(_, _)
DigitsValue(cs, acc) ==
    IF cs = <<>> THEN acc
    ELSE DigitsValue(Tail(cs), 10 * acc + DigitValue(Head(cs)))

\* int(text) of scraper.py:135: ok = FALSE is ValueError
ParseInt(text) ==
    LET neg == text # <<>> /\ Head(text) = "-"
        ds == IF neg THEN Tail(text) ELSE text
    IN  IF ds = <<>> \/ \E k \in 1..Len(ds) : ~IsDigit(ds[k])
        THEN [ok |-> FALSE, n |-> 0]
        ELSE [ok |-> TRUE,
              n |-> IF neg THEN 0 - DigitsValue(ds, 0) ELSE DigitsValue(ds, 0)]

\* scraper.py:133-138
ReadMaxProducts(env) ==
    LET max_products_str == IF env.set THEN env.text ELSE <<"2", "0">>
        parsed == ParseInt(max_products_str)
    IN  IF parsed.ok THEN parsed.n ELSE DefaultMaxProducts

EnvTexts ==
    {<<>>, <<"x">>, <<"2", "0">>}
    \cup {<<DigitChars[d + 1]>> : d \in 0..MaxDigit}
    \cup {<<"-", DigitChars[d + 1]>> : d \in 0..MaxDigit}

EnvValues == {[set |-> FALSE, text |-> <<>>]}
             \cup {[set |-> TRUE, text |-> t] : t \in EnvTexts}

\* what the sitemap index, the child sitemaps and the product pages may
\* answer during a run of main()
MainIndexAnswers ==
    FailedAnswers
    \cup {Answer("ok", d) :
            d \in SeqsUpTo({ProductSitemapLoc, <<"sitemap_", "pages">>},
                           MaxSitemaps)}

MainSitemapAnswers ==
    FailedAnswers
    \cup {Answer("ok", d) :
            d \in {<<>>,
                   <<UrlTag(TRUE, LinkA)>>,
                   <<UrlTag(TRUE, LinkB), UrlTag(TRUE, LinkA)>>,
                   <<UrlTag(TRUE, PageLink), UrlTag(TRUE, LinkB)>>}}

NullDescriptionProduct ==
    Item("dict", ProductType, Str(<<"Tea">>), Absent, Null, NoOffers)

MainPageAnswers ==
    {PageAnswer("timeout", <<>>)}
    \cup {PageAnswer("ok", bs) :
            bs \in {<<>>,
                    <<Block("bad", <<>>)>>,
                    <<Block("single", <<OtherItem>>)>>,
                    <<Block("single", <<PlainProduct>>)>>,
                    <<Block("single", <<NullDescriptionProduct>>)>>}}

\* variant: no scope around the browser, nothing is released on the way out
PlaywrightExitKeeps(resource) == resource

\* What leaving the `async with async_playwright()` block (scraper.py:158)
\* does to a browser or page that is still open: the scope stops the
\* Playwright driver, and the browsers the driver launched end with it.
PlaywrightExit(resource) == IF resource = "open" THEN "closed" ELSE resource

Init ==
    /\ ResolveIdle /\ CollectIdle /\ PageIdle
    /\ pc = "start"
    /\ env_value \in EnvValues
    /\ max_products = 0
    /\ sitemap_urls = <<>> /\ product_links = <<>> /\ links_to_scrape = <<>>
    /\ all_products_data = <<>> /\ i = 0
    /\ playwright = "none" /\ browser = "none" /\ page = "none"
    /\ visited = <<>> /\ loads = <<>>
    /\ csv_written = FALSE /\ outcome = "running"

otherVars == <<r_input, r_output, c_input, c_output, p_input, p_output>>

\* scraper.py:131-140
Start ==
    /\ pc = "start"
    /\ max_products' = ReadMaxProducts(env_value)
    /\ pc' = "resolve"
    /\ UNCHANGED <<env_value, sitemap_urls, product_links, links_to_scrape,
                   all_products_data, i, playwright, browser, page, visited, loads,
                   csv_written, outcome, otherVars>>

\* scraper.py:143-146
Resolve ==
    /\ pc = "resolve"
    /\ \E a \in MainIndexAnswers :
         LET r == GetProductSitemapUrls(a)
         IN  /\ sitemap_urls' = r.val
             /\ pc' = IF r.exc # NoExc \/ r.val = <<>> THEN "done" ELSE "collect"
             /\ outcome' = IF r.exc # NoExc THEN "raised"
                           ELSE IF r.val = <<>> THEN "returned" ELSE outcome
    /\ UNCHANGED <<env_value, max_products, product_links, links_to_scrape,
                   all_products_data, i, playwright, browser, page, visited, loads,
                   csv_written, otherVars>>

\* variant: scraper.py:149-151 left out
CollectWithoutEmptyCheck ==
    /\ pc = "collect"
    /\ \E answers \in [1..Len(sitemap_urls) -> MainSitemapAnswers] :
         LET r == GetAllProductLinksFromSitemaps(sitemap_urls, answers)
         IN  /\ product_links' = r.val
             /\ links_to_scrape' =
                    IF r.exc # NoExc THEN <<>> ELSE SliceTo(r.val, max_products)
             /\ pc' = IF r.exc # NoExc THEN "done" ELSE "enter"
             /\ outcome' = IF r.exc # NoExc THEN "raised" ELSE outcome
    /\ UNCHANGED <<env_value, max_products, sitemap_urls, all_products_data,
                   i, playwright, browser, page, visited, loads, csv_written,
                   otherVars>>

\* scraper.py:148-154
Collect ==
    /\ pc = "collect"
    /\ \E answers \in [1..Len(sitemap_urls) -> MainSitemapAnswers] :
         LET r == GetAllProductLinksFromSitemaps(sitemap_urls, answers)
         IN  /\ product_links' = r.val
             /\ links_to_scrape' =
                    IF r.exc # NoExc \/ r.val = <<>> THEN <<>>
                    ELSE SliceTo(r.val, max_products)
             /\ pc' = IF r.exc # NoExc \/ r.val = <<>> THEN "done" ELSE "enter"
             /\ outcome' = IF r.exc # NoExc THEN "raised"
                           ELSE IF r.val = <<>> THEN "returned" ELSE outcome
    /\ UNCHANGED <<env_value, max_products, sitemap_urls, all_products_data,
                   i, playwright, browser, page, visited, loads, csv_written,
                   otherVars>>

\* scraper.py:158: entering the async_playwright() scope
EnterPlaywright ==
    /\ pc = "enter"
    /\ \E ok \in BOOLEAN :
         IF ok THEN /\ playwright' = "started"
                    /\ pc' = "launch"
                    /\ UNCHANGED outcome
         ELSE /\ pc' = "done"
              /\ outcome' = "raised"
              /\ UNCHANGED playwright
    /\ UNCHANGED <<env_value, max_products, sitemap_urls, product_links,
                   links_to_scrape, all_products_data, i, browser, page,
                   visited, loads, csv_written, otherVars>>

\* scraper.py:159
Launch ==
    /\ pc = "launch"
    /\ \E ok \in BOOLEAN :
         IF ok THEN /\ browser' = "open"
                    /\ pc' = "new_page"
                    /\ UNCHANGED <<playwright, outcome>>
         ELSE /\ browser' = PlaywrightExit(browser)
              /\ playwright' = "stopped"
              /\ pc' = "done"
              /\ outcome' = "raised"
    /\ UNCHANGED <<env_value, max_products, sitemap_urls, product_links,
                   links_to_scrape, all_products_data, i, page, visited, loads,
                   csv_written, otherVars>>

\* scraper.py:160
NewPage ==
    /\ pc = "new_page"
    /\ \E ok \in BOOLEAN :
         IF ok THEN /\ page' = "open"
                    /\ pc' = "loop"
                    /\ UNCHANGED <<playwright, browser, outcome>>
         ELSE /\ browser' = PlaywrightExit(browser)
              /\ page' = PlaywrightExit(page)
              /\ playwright' = "stopped"
              /\ pc' = "done"
              /\ outcome' = "raised"
    /\ UNCHANGED <<env_value, max_products, sitemap_urls, product_links,
                   links_to_scrape, all_products_data, i, visited, loads,
                   csv_written, otherVars>>

\* variant: the loop is left at the first page that gives no data
ScrapeNextStopsOnNone ==
    /\ pc = "loop"
    /\ i < Len(links_to_scrape)
    /\ \E a \in MainPageAnswers :
         LET link == links_to_scrape[i + 1]
             data == ScrapeProductPage(a, link)
         IN  /\ visited' = Append(visited, link)
             /\ loads' = Append(loads, a.nav)
             /\ IF data.exc # NoExc
                THEN /\ browser' = PlaywrightExit(browser)
                     /\ page' = PlaywrightExit(page)
                     /\ playwright' = "stopped"
                     /\ pc' = "done"
                     /\ outcome' = "raised"
                     /\ UNCHANGED <<all_products_data, i>>
                ELSE /\ all_products_data' = all_products_data \o data.val
                     /\ i' = IF data.val = <<>> THEN Len(links_to_scrape)
                             ELSE i + 1
                     /\ UNCHANGED <<playwright, browser, page, pc, outcome>>
    /\ UNCHANGED <<env_value, max_products, sitemap_urls, product_links,
                   links_to_scrape, csv_written, otherVars>>

\* scraper.py:162-166: one iteration of the loop
ScrapeNext ==
    /\ pc = "loop"
    /\ i < Len(links_to_scrape)
    /\ \E a \in MainPageAnswers :
         LET link == links_to_scrape[i + 1]
             data == ScrapeProductPage(a, link)
         IN  /\ visited' = Append(visited, link)
             /\ loads' = Append(loads, a.nav)
             /\ IF data.exc # NoExc
                THEN /\ browser' = PlaywrightExit(browser)
                     /\ page' = PlaywrightExit(page)
                     /\ playwright' = "stopped"
                     /\ pc' = "done"
                     /\ outcome' = "raised"
                     /\ UNCHANGED <<all_products_data, i>>
                ELSE /\ all_products_data' = all_products_data \o data.val
                     /\ i' = i + 1
                     /\ UNCHANGED <<playwright, browser, page, pc, outcome>>
    /\ UNCHANGED <<env_value, max_products, sitemap_urls, product_links,
                   links_to_scrape, csv_written, otherVars>>

\* scraper.py:168 and the end of the async with block
CloseBrowser ==
    /\ pc = "loop"
    /\ i = Len(links_to_scrape)
    /\ \E ok \in BOOLEAN :
         IF ok THEN /\ browser' = "closed"
                    /\ page' = "closed"
                    /\ playwright' = "stopped"
                    /\ pc' = "save"
                    /\ UNCHANGED outcome
         ELSE /\ browser' = PlaywrightExit(browser)
              /\ page' = PlaywrightExit(page)
              /\ playwright' = "stopped"
              /\ pc' = "done"
              /\ outcome' = "raised"
    /\ UNCHANGED <<env_value, max_products, sitemap_urls, product_links,
                   links_to_scrape, all_products_data, i, visited, loads,
                   csv_written, otherVars>>

\* scraper.py:171-191
Save ==
    /\ pc = "save"
    /\ IF all_products_data = <<>>
       THEN /\ outcome' = "returned"
            /\ UNCHANGED csv_written
       ELSE \E ok \in BOOLEAN :
              /\ csv_written' = ok
              /\ outcome' = IF ok THEN "returned" ELSE "exit1"
    /\ pc' = "done"
    /\ UNCHANGED <<env_value, max_products, sitemap_urls, product_links,
                   links_to_scrape, all_products_data, i, playwright, browser,
                   page, visited, loads, otherVars>>

Next ==
    \/ Start
    \/ Resolve
    \/ Collect
    \/ EnterPlaywright
    \/ Launch
    \/ NewPage
    \/ ScrapeNext
    \/ CloseBrowser
    \/ Save

Spec == Init /\ [][Next]_vars

(***************************************************************************)
(* Properties.                                                             *)
(***************************************************************************)
\* the j-th smallest element of a finite set of numbers
NthOf(S, j) == CHOOSE k \in S : Cardinality({m \in S : m <= k}) = j

IsProductObject(x) == x.t = "dict" /\ x.type = ProductType
IsOtherObject(x) == x.t = "dict" /\ x.type # ProductType

\* blocks[b].items[j] is a Product object and everything the scan meets
\* before it is a parsable block of objects that are not Products
LeadsAt(blocks, b, j) ==
    /\ blocks[b].t # "bad"
    /\ IsProductObject(blocks[b].items[j])
    /\ \A j2 \in 1..(j - 1) : IsOtherObject(blocks[b].items[j2])
    /\ \A b2 \in 1..(b - 1) :
         /\ blocks[b2].t # "bad"
         /\ \A j2 \in 1..Len(blocks[b2].items) :
              IsOtherObject(blocks[b2].items[j2])

LeadPositions(blocks) ==
    {q \in UNION {{<<b, j>> : j \in 1..Len(blocks[b].items)} :
                     b \in 1..Len(blocks)} : LeadsAt(blocks, q[1], q[2])}

HasLeadingProduct(blocks) == LeadPositions(blocks) # {}

LeadingProduct(blocks) ==
    LET q == CHOOSE q \in LeadPositions(blocks) : TRUE
    IN  blocks[q[1]].items[q[2]]

NoProductObject(blocks) ==
    \A b \in 1..Len(blocks) : \A j \in 1..Len(blocks[b].items) :
        ~IsProductObject(blocks[b].items[j])

\* C1: scrape_product_page never lets an exception out: whatever the page
\* does (navigation error or timeout, no JSON-LD block, malformed JSON, no
\* Product object, malformed Product fields) the call returns None or one
\* record; a page that fails to load or holds no Product object gives None,
\* and a record carries the url it was asked for.
C1_RecordOrNull ==
    p_output.called =>
        /\ p_output.exc = NoExc
        /\ Len(p_output.val) <= 1
        /\ p_input.answer.nav # "ok" => p_output.val = <<>>
        /\ NoProductObject(p_input.answer.blocks) => p_output.val = <<>>
        /\ p_output.val # <<>> => p_output.val[1].url = p_input.url

\* a page whose second block has a Product with a non-string description,
\* after a first block that parses: the AttributeError ends in None
C1_Witness ==
    /\ p_output.called
    /\ p_input.answer.nav = "ok"
    /\ Len(p_input.answer.blocks) = 2
    /\ HasLeadingProduct(p_input.answer.blocks)
    /\ LeadingProduct(p_input.answer.blocks).description.t = "num"
    /\ p_output = Called(Returned(<<>>))

\* C6: a field of a Product object that is absent or malformed degrades to
\* the sentinel for that field alone: whenever the page loads and the scan
\* reaches a Product object, a record is returned, with the sentinel in the
\* place of a name, sku or description that is absent, null or not a string.
C6_FieldFailureKeepsRecord ==
    (/\ p_output.called
     /\ p_input.answer.nav = "ok"
     /\ HasLeadingProduct(p_input.answer.blocks))
    => /\ p_output.exc = NoExc
       /\ p_output.val # <<>>
       /\ LET item == LeadingProduct(p_input.answer.blocks)
              rec == p_output.val[1]
          IN  /\ item.name.t \in {"absent", "null"} => rec.name = NA
              /\ item.sku.t \in {"absent", "null"} => rec.sku = NA
              /\ item.description.t # "str" => rec.description = NA

\* the Offer object the code reads: `offers` itself or the first of a list
HasOfferObject(item) ==
    /\ item.offers.t \in {"dict", "list"}
    /\ item.offers.elems # <<>>
    /\ item.offers.elems[1].t = "dict"

\* C10: in a record made from a Product object whose offers is an object,
\* or a list that starts with one, price and price_currency are that
\* object's price and priceCurrency, and availability is "In Stock" when
\* the raw string contains "InStock", else "Out of Stock" when it contains
\* "OutOfStock", else the raw string itself.
C10_OfferFields ==
    (/\ p_output.called
     /\ p_output.val # <<>>
     /\ HasLeadingProduct(p_input.answer.blocks)
     /\ HasOfferObject(LeadingProduct(p_input.answer.blocks)))
    => LET offer == LeadingProduct(p_input.answer.blocks).offers.elems[1]
           rec == p_output.val[1]
           raw == offer.availability
       IN  /\ offer.price.t # "absent" => rec.price = offer.price
           /\ offer.priceCurrency.t # "absent" =>
                  rec.price_currency = offer.priceCurrency
           /\ raw.t = "str" =>
                  rec.availability =
                      IF \E k \in 1..(Len(raw.s) - 1) :
                             raw.s[k] = "In" /\ raw.s[k + 1] = "Stock"
                      THEN Str(<<"In Stock">>)
                      ELSE IF \E k \in 1..(Len(raw.s) - 1) :
                                  raw.s[k] = "OutOf" /\ raw.s[k + 1] = "Stock"
                           THEN Str(<<"Out of Stock">>)
                           ELSE raw

\* a list of two offers whose first has price "1999", currency "PKR" and an
\* availability that contains both markers: the record says "In Stock"
C10_Witness ==
    /\ p_output.called
    /\ p_output.val # <<>>
    /\ HasLeadingProduct(p_input.answer.blocks)
    /\ LET o == LeadingProduct(p_input.answer.blocks).offers
       IN  /\ o.t = "list"
           /\ Len(o.elems) = 2
           /\ o.elems[1] = OfferDict(Str(<<"1999">>), Str(<<"PKR">>),
                                     Str(<<"OutOf", "Stock", "In", "Stock">>))
    /\ p_output.val[1].price = Str(<<"1999">>)
    /\ p_output.val[1].price_currency = Str(<<"PKR">>)
    /\ p_output.val[1].availability = Str(<<"In Stock">>)

\* the positions of the <loc> values of an index that hold the marker
MarkedLocs(doc) ==
    {k \in 1..Len(doc) :
        \E m \in 1..(Len(doc[k]) - 1) :
            doc[k][m] = "sitemap_" /\ doc[k][m + 1] = "products"}

\* C8: on an index that was fetched and parsed, get_product_sitemap_urls
\* returns exactly the <loc> values that contain "sitemap_products", in
\* document order, duplicates kept; none matching gives the empty list.
C8_ResolveExact ==
    (r_output.called /\ r_input.kind = "ok") =>
        /\ r_output.exc = NoExc
        /\ Len(r_output.val) = Cardinality(MarkedLocs(r_input.doc))
        /\ \A j \in 1..Len(r_output.val) :
             r_output.val[j] = r_input.doc[NthOf(MarkedLocs(r_input.doc), j)]

\* an index of three <loc>: a product sitemap, another sitemap, the same
\* product sitemap again
C8_Witness ==
    /\ r_output.called
    /\ r_input.kind = "ok"
    /\ Len(r_input.doc) = 3
    /\ r_input.doc[2] = <<"products", "sitemap_">>
    /\ r_output.val = <<r_input.doc[1], r_input.doc[3]>>
    /\ r_input.doc[1] = r_input.doc[3]

\* C7: get_product_sitemap_urls fails softly: when the index cannot be
\* fetched or cannot be parsed it returns the empty list and raises nothing.
C7_FailsSoftly ==
    (r_output.called /\ r_input.kind # "ok") =>
        r_output.exc = NoExc /\ r_output.val = <<>>

\* the (sitemap, <url>) positions that hold a product link of a sitemap
\* that answered
LinkPositions(answers) ==
    {q \in UNION {{<<k, j>> : j \in 1..Len(answers[k].doc)} :
                     k \in 1..Len(answers)} :
        /\ answers[q[1]].kind = "ok"
        /\ answers[q[1]].doc[q[2]].has_loc
        /\ LET loc == answers[q[1]].doc[q[2]].loc
           IN  \E m \in 1..(Len(loc) - 2) :
                   loc[m] = "/" /\ loc[m + 1] = "products" /\ loc[m + 2] = "/"}

PositionBefore(p, q) == p[1] < q[1] \/ (p[1] = q[1] /\ p[2] <= q[2])

\* C2: when every sitemap either answers or fails with a network error,
\* get_all_product_links_from_sitemaps raises nothing and returns the
\* '/products/' links of the sitemaps that answered, by sitemap and then by
\* place in the document, duplicates kept; a failing sitemap adds nothing
\* and the sitemaps after it are still read.
C2_CollectConcatenates ==
    (/\ c_output.called
     /\ \A k \in 1..Len(c_input.answers) :
          c_input.answers[k].kind # "parse_error")
    => LET P == LinkPositions(c_input.answers)
       IN  /\ c_output.exc = NoExc
           /\ Len(c_output.val) = Cardinality(P)
           /\ \A q \in P :
                c_output.val[Cardinality({p \in P : PositionBefore(p, q)})]
                    = c_input.answers[q[1]].doc[q[2]].loc

\* the first sitemap fails with a network error, the second gives two links
C2_Witness ==
    /\ c_output.called
    /\ Len(c_input.answers) = 2
    /\ c_input.answers[1].kind \in {"conn_error", "http_error"}
    /\ c_input.answers[2] =
           Answer("ok", <<UrlTag(TRUE, LinkB), UrlTag(TRUE, LinkA)>>)
    /\ c_output = Called(Returned(<<LinkB, LinkA>>))

\* main() has passed scraper.py:153
Truncated == pc \in {"enter", "launch", "new_page", "loop", "save"}
             \/ (pc = "done" /\ product_links # <<>>)

\* C3: with maximum items N and M discovered links, min(N, M) links are
\* submitted to extraction (none when that is not positive), and they are
\* the first ones of the discovered sequence.
C3_MinTruncation ==
    Truncated =>
        /\ Len(links_to_scrape) =
               Max(0, Min(max_products, Len(product_links)))
        /\ links_to_scrape = SubSeq(product_links, 1, Len(links_to_scrape))

\* C4: when main() has ended, no browser, page or Playwright scope that it
\* opened is still open, whichever way it ended.
C4_SessionReleased ==
    pc = "done" =>
        /\ browser # "open"
        /\ page # "open"
        /\ playwright # "started"

\* main() ended by an exception after the browser had been launched
C4_Witness ==
    /\ pc = "done"
    /\ outcome = "raised"
    /\ browser = "closed"
    /\ page = "none"
    /\ playwright = "stopped"

\* C5: the loop visits the links submitted to extraction one by one in
\* their order, each once, whatever the pages give, and goes on to the end
\* of the list: after i iterations the first i links have been visited, and
\* once the loop is left every link has been.
C5_BatchContinues ==
    /\ pc = "loop" =>
          /\ i <= Len(links_to_scrape)
          /\ visited = SubSeq(links_to_scrape, 1, i)
    /\ (page # "none" /\ pc # "loop") => visited = links_to_scrape
    /\ Len(loads) = Len(visited)
    /\ page = "none" => visited = <<>>

\* two different links: the first page timed out on load, the second gave
\* a record, and the loop was left with both visited
C5_Witness ==
    /\ pc = "save"
    /\ Len(visited) = 2
    /\ loads = <<"timeout", "ok">>
    /\ visited[1] # visited[2]
    /\ Len(all_products_data) = 1
    /\ all_products_data[1].url = visited[2]

\* C9: when the index gives no product sitemap (unreachable or none
\* listed), or the sitemaps give no product link, main() ends at once: no
\* Playwright scope is entered, no page is visited, no file is written.
C9_FatalAbort ==
    (\/ (pc \notin {"start", "resolve"} /\ sitemap_urls = <<>>)
     \/ (pc \notin {"start", "resolve", "collect"} /\ product_links = <<>>))
    => /\ pc = "done"
       /\ visited = <<>>
       /\ playwright = "none" /\ browser = "none" /\ page = "none"
       /\ ~csv_written

\* product sitemaps were found, none of them gave a product link
C9_Witness ==
    /\ pc = "done"
    /\ outcome = "returned"
    /\ sitemap_urls # <<>>
    /\ product_links = <<>>
    /\ visited = <<>>

====
